---- MODULE Spec2Model ----
(***************************************************************************)
(* useSecureQuery: the XOR + URL-safe Base64 codec and the query-parameter *)
(* transformer of the hook (encode path buildSearch, decode path the       *)
(* memoised query computation, the mounted gate and the tamper redirect).  *)
(*                                                                         *)
(* A JavaScript string is a sequence of UTF-16 code units (0..65535), a    *)
(* Uint8Array a sequence of bytes (0..255).  A JavaScript value is a       *)
(* record [t, s, n, e]: t its type, s its string content (or, for a number *)
(* read by JSON.parse, its literal), n its numeric/boolean content, e the  *)
(* <<key, value>> entries of an object or array.                           *)
(***************************************************************************)
EXTENDS Integers, Sequences, FiniteSets

VARIABLES
  cText,        \* codec: the plaintext handed to xorEncrypt
  cKey,         \* codec: the key argument (a JavaScript value)
  cToken,       \* codec: the token under way (xorEncrypt's result, maybe cut)
  cResult,      \* codec: what xorDecrypt returned
  cPc,          \* codec: "start", "encrypted", "tampered", "decrypted", "rejected"
  opts,         \* hook: the Options the component passes
  hasWindow,    \* hook: whether a window global exists
  mounted,      \* hook: the mounted state
  searchParams, \* hook: useSearchParams(), a list of <<name, value>>
  query,        \* hook: the memoised query map, key -> value
  href,         \* hook: what window.location.href was set to (<<>>: never set)
  routerCall,   \* hook: the last call made on the router
  params,       \* hook: the parameter entries of that call
  calls         \* hook: the decrypt calls of the last render, [key, value, ret]

cvars == <<cText, cKey, cToken, cResult, cPc>>

hvars == <<opts, hasWindow, mounted, searchParams, query, href, routerCall, params, calls>>

vars == <<cText, cKey, cToken, cResult, cPc,
          opts, hasWindow, mounted, searchParams, query, href, routerCall, params, calls>>

(* ------------------------------ values -------------------------------- *)

Undefined == [t |-> "undefined", s |-> <<>>, n |-> 0, e |-> <<>>]

JsNull == [t |-> "null", s |-> <<>>, n |-> 0, e |-> <<>>]

JsString(s) == [t |-> "string", s |-> s, n |-> 0, e |-> <<>>]

JsNumber(n) == [t |-> "number", s |-> <<>>, n |-> n, e |-> <<>>]

JsBoolean(b) == [t |-> "boolean", s |-> <<>>, n |-> IF b THEN 1 ELSE 0, e |-> <<>>]

\* a ?? b
Nullish(v) == v.t = "undefined" \/ v.t = "null"

(* ------------------------------- UTF-8 -------------------------------- *)

IsHighSurrogate(u) == u >= 55296 /\ u <= 56319
IsLowSurrogate(u) == u >= 56320 /\ u <= 57343

\* The UTF-8 bytes of one scalar value.
EncodeCodePoint(cp) ==
  IF cp < 128 THEN <<cp>>
  ELSE IF cp < 2048 THEN <<192 + (cp \div 64), 128 + (cp % 64)>>
  ELSE IF cp < 65536
    THEN <<224 + (cp \div 4096), 128 + ((cp \div 64) % 64), 128 + (cp % 64)>>
    ELSE <<240 + (cp \div 262144), 128 + ((cp \div 4096) % 64),
           128 + ((cp \div 64) % 64), 128 + (cp % 64)>>

RECURSIVE EncodeFrom(_, _)
EncodeFrom(s, i) ==
  IF i > Len(s) THEN <<>>
  ELSE IF IsHighSurrogate(s[i]) /\ i < Len(s) /\ IsLowSurrogate(s[i + 1])
    THEN EncodeCodePoint(65536 + (s[i] - 55296) * 1024 + (s[i + 1] - 56320))
           \o EncodeFrom(s, i + 2)
  ELSE IF IsHighSurrogate(s[i]) \/ IsLowSurrogate(s[i])
    THEN EncodeCodePoint(65533) \o EncodeFrom(s, i + 1)   \* lone surrogate: U+FFFD
    ELSE EncodeCodePoint(s[i]) \o EncodeFrom(s, i + 1)

\* te.encode(s): TextEncoder, UTF-8 of the string's scalar values.
toUtf8(s) == EncodeFrom(s, 1)

\* The UTF-8 decoder with replacement (fatal: false): the scalar values of
\* the bytes from i on, in the state (need, seen, cp, lo, hi).
RECURSIVE DecodeFrom(_, _, _, _, _, _, _)
DecodeFrom(b, i, need, seen, cp, lo, hi) ==
  IF i > Len(b) THEN (IF need # 0 THEN <<65533>> ELSE <<>>)
  ELSE LET x == b[i] IN
    IF need = 0 THEN
      IF x <= 127 THEN <<x>> \o DecodeFrom(b, i + 1, 0, 0, 0, 128, 191)
      ELSE IF x >= 194 /\ x <= 223
        THEN DecodeFrom(b, i + 1, 1, 0, x - 192, 128, 191)
      ELSE IF x >= 224 /\ x <= 239
        THEN DecodeFrom(b, i + 1, 2, 0, x - 224,
                        IF x = 224 THEN 160 ELSE 128, IF x = 237 THEN 159 ELSE 191)
      ELSE IF x >= 240 /\ x <= 244
        THEN DecodeFrom(b, i + 1, 3, 0, x - 240,
                        IF x = 240 THEN 144 ELSE 128, IF x = 244 THEN 143 ELSE 191)
        ELSE <<65533>> \o DecodeFrom(b, i + 1, 0, 0, 0, 128, 191)
    ELSE IF x < lo \/ x > hi
      THEN <<65533>> \o DecodeFrom(b, i, 0, 0, 0, 128, 191)   \* the byte is read again
    ELSE IF seen + 1 = need
      THEN <<cp * 64 + (x - 128)>> \o DecodeFrom(b, i + 1, 0, 0, 0, 128, 191)
      ELSE DecodeFrom(b, i + 1, need, seen + 1, cp * 64 + (x - 128), 128, 191)

RECURSIVE CodeUnits(_)
CodeUnits(cps) ==
  IF Len(cps) = 0 THEN <<>>
  ELSE IF Head(cps) >= 65536
    THEN <<55296 + ((Head(cps) - 65536) \div 1024), 56320 + ((Head(cps) - 65536) % 1024)>>
           \o CodeUnits(Tail(cps))
    ELSE <<Head(cps)>> \o CodeUnits(Tail(cps))

\* UTF-8 decode without BOM handling (the URL parser's decoder).
Utf8DecodeWithoutBOM(u8) == CodeUnits(DecodeFrom(u8, 1, 0, 0, 0, 128, 191))

\* td.decode(u8): TextDecoder() with its defaults, fatal false and
\* ignoreBOM false: a leading U+FEFF is not part of the result.
fromUtf8(u8) ==
  LET cps == DecodeFrom(u8, 1, 0, 0, 0, 128, 191)
  IN CodeUnits(IF Len(cps) > 0 /\ cps[1] = 65279 THEN Tail(cps) ELSE cps)

(* ------------------------------ Base64 -------------------------------- *)

\* The Base64 alphabet: A-Z a-z 0-9 + /
Base64Char(v) ==
  IF v < 26 THEN 65 + v
  ELSE IF v < 52 THEN 97 + (v - 26)
  ELSE IF v < 62 THEN 48 + (v - 52)
  ELSE IF v = 62 THEN 43 ELSE 47

\* The value of a Base64 character, -1 for any other code unit.
Base64Value(c) ==
  IF c >= 65 /\ c <= 90 THEN c - 65
  ELSE IF c >= 97 /\ c <= 122 THEN c - 97 + 26
  ELSE IF c >= 48 /\ c <= 57 THEN c - 48 + 52
  ELSE IF c = 43 THEN 62
  ELSE IF c = 47 THEN 63 ELSE -1

\* btoa(bin) for a binary string (every code unit at most 255).
RECURSIVE btoa(_)
btoa(bin) ==
  IF Len(bin) = 0 THEN <<>>
  ELSE IF Len(bin) = 1
    THEN <<Base64Char(bin[1] \div 4), Base64Char((bin[1] % 4) * 16), 61, 61>>
  ELSE IF Len(bin) = 2
    THEN <<Base64Char(bin[1] \div 4),
           Base64Char((bin[1] % 4) * 16 + (bin[2] \div 16)),
           Base64Char((bin[2] % 16) * 4), 61>>
    ELSE <<Base64Char(bin[1] \div 4),
           Base64Char((bin[1] % 4) * 16 + (bin[2] \div 16)),
           Base64Char((bin[2] % 16) * 4 + (bin[3] \div 64)),
           Base64Char(bin[3] % 64)>> \o btoa(SubSeq(bin, 4, Len(bin)))

\* str.replace(/x/g, y) for single code units x, y.
ReplaceAll(str, x, y) == [i \in 1..Len(str) |-> IF str[i] = x THEN y ELSE str[i]]

\* str.replace(/=+$/, "")
RECURSIVE StripPadding(_)
StripPadding(str) ==
  IF Len(str) > 0 /\ str[Len(str)] = 61
    THEN StripPadding(SubSeq(str, 1, Len(str) - 1))
    ELSE str

base64UrlEncode(u8) ==
  StripPadding(ReplaceAll(ReplaceAll(btoa(u8), 43, 45), 47, 95))

IsAsciiWhitespace(c) == c \in {9, 10, 12, 13, 32}

RECURSIVE SelectUnits(_, _)
SelectUnits(str, keepWs) ==
  IF Len(str) = 0 THEN <<>>
  ELSE IF IsAsciiWhitespace(Head(str)) = keepWs
    THEN <<Head(str)>> \o SelectUnits(Tail(str), keepWs)
    ELSE SelectUnits(Tail(str), keepWs)

\* The bytes of a run of Base64 characters (forgiving-base64's last step).
RECURSIVE Base64Bytes(_)
Base64Bytes(d) ==
  IF Len(d) < 2 THEN <<>>
  ELSE LET a == Base64Value(d[1])
           b == Base64Value(d[2])
       IN IF Len(d) = 2 THEN <<a * 4 + (b \div 16)>>
          ELSE LET c == Base64Value(d[3]) IN
            IF Len(d) = 3 THEN <<a * 4 + (b \div 16), (b % 16) * 16 + (c \div 4)>>
            ELSE <<a * 4 + (b \div 16), (b % 16) * 16 + (c \div 4),
                   (c % 4) * 64 + Base64Value(d[4])>>
                   \o Base64Bytes(SubSeq(d, 5, Len(d)))

\* atob(data): forgiving-base64 decode; ok = FALSE is InvalidCharacterError.
atob(data) ==
  LET d1 == SelectUnits(data, FALSE)
      n1 == Len(d1)
      d2 == IF n1 % 4 = 0 /\ n1 >= 2 /\ d1[n1] = 61 /\ d1[n1 - 1] = 61
              THEN SubSeq(d1, 1, n1 - 2)
            ELSE IF n1 % 4 = 0 /\ n1 >= 1 /\ d1[n1] = 61
              THEN SubSeq(d1, 1, n1 - 1)
              ELSE d1
  IN IF Len(d2) % 4 = 1 \/ \E i \in 1..Len(d2) : Base64Value(d2[i]) = -1
       THEN [ok |-> FALSE, bin |-> <<>>]
       ELSE [ok |-> TRUE, bin |-> Base64Bytes(d2)]

\* "=".repeat(n)
Repeat(c, n) == [i \in 1..n |-> c]

\* base64UrlDecode(str): the bytes, or null when atob throws.
base64UrlDecode(str) ==
  LET b64 == ReplaceAll(ReplaceAll(str, 45, 43), 95, 47)
      pad == Len(b64) % 4
      padded == IF pad # 0 THEN b64 \o Repeat(61, 4 - pad) ELSE b64
      r == atob(padded)
  IN IF r.ok THEN [null |-> FALSE, bytes |-> r.bin]
             ELSE [null |-> TRUE, bytes |-> <<>>]

(* -------------------------------- XOR --------------------------------- *)

\* a ^ b on bytes
RECURSIVE BitXor(_, _)
BitXor(a, b) ==
  IF a = 0 THEN b
  ELSE IF b = 0 THEN a
  ELSE ((a + b) % 2) + 2 * BitXor(a \div 2, b \div 2)

\* "thisisaSecretkey"
DEFAULT_SECRET ==
  <<116, 104, 105, 115, 105, 115, 97, 83, 101, 99, 114, 101, 116, 107, 101, 121>>

\* toUtf8(key ?? DEFAULT_SECRET)
KeyBytes(key) == toUtf8(IF Nullish(key) THEN DEFAULT_SECRET ELSE key.s)

\* u8.map((b, i) => b ^ k[i % k.length]); with an empty k the index is NaN,
\* k[NaN] is undefined and b ^ undefined is b.
XorWithKey(u8, k) ==
  [j \in 1..Len(u8) |->
     IF Len(k) = 0 THEN u8[j] ELSE BitXor(u8[j], k[((j - 1) % Len(k)) + 1])]

xorEncrypt(text, key) == base64UrlEncode(XorWithKey(toUtf8(text), KeyBytes(key)))

\* xorDecrypt as it would be without the test typeof window !== "undefined".
xorDecrypt_WithoutWindowTest(encoded, key, notFoundPath, window) ==
  LET bytes == base64UrlDecode(encoded)
  IN IF bytes.null
       THEN [ret |-> JsNull, redirect |-> Len(notFoundPath) > 0]
       ELSE [ret |-> JsString(fromUtf8(XorWithKey(bytes.bytes, KeyBytes(key)))),
             redirect |-> FALSE]

\* xorDecrypt(encoded, key, notFoundPath): ret is the string or null returned,
\* redirect whether window.location.href was set to notFoundPath.
xorDecrypt(encoded, key, notFoundPath, window) ==
  LET bytes == base64UrlDecode(encoded)
  IN IF bytes.null
       THEN [ret |-> JsNull, redirect |-> (Len(notFoundPath) > 0 /\ window)]
       ELSE [ret |-> JsString(fromUtf8(XorWithKey(bytes.bytes, KeyBytes(key)))),
             redirect |-> FALSE]

(* ------------------------- the codec, stepwise ------------------------ *)

NotGiven(v) == [given |-> FALSE, v |-> v]

Given(v) == [given |-> TRUE, v |-> v]

\* useSecureQuery() without options
NoOptions ==
  [allowList |-> NotGiven(<<>>), secret |-> NotGiven(<<>>), mode |-> NotGiven(""),
   bundleKey |-> NotGiven(<<>>), encryptionMode |-> NotGiven(""),
   notFoundPath |-> NotGiven(<<>>)]

MaxTextLen == 2

TextUnits == {97, 126, 233, 65279, 55296}

RECURSIVE StringsUpTo(_, _)
StringsUpTo(units, n) ==
  IF n = 0 THEN {<<>>}
  ELSE LET shorter == StringsUpTo(units, n - 1)
       IN shorter \cup {Append(s, u) : s \in {x \in shorter : Len(x) = n - 1}, u \in units}

Texts == StringsUpTo(TextUnits, MaxTextLen)

CodecKeys == {Undefined, JsString(<<>>), JsString(<<107>>), JsString(<<75, 233>>)}

HookIdle ==
  /\ opts = NoOptions
  /\ hasWindow = FALSE
  /\ mounted = FALSE
  /\ searchParams = <<>>
  /\ query = [k \in {} |-> Undefined]
  /\ href = <<>>
  /\ routerCall = [method |-> "none", url |-> <<>>]
  /\ params = <<>>
  /\ calls = <<>>

CodecInit ==
  /\ HookIdle
  /\ cText \in Texts
  /\ cKey \in CodecKeys
  /\ cToken = <<>>
  /\ cResult = Undefined
  /\ cPc = "start"

Encrypt ==
  /\ cPc = "start"
  /\ cToken' = xorEncrypt(cText, cKey)
  /\ cPc' = "encrypted"
  /\ UNCHANGED <<cText, cKey, cResult>>
  /\ UNCHANGED hvars

\* One trailing character of the token is lost on the way.
Truncate ==
  /\ cPc = "encrypted"
  /\ Len(cToken) > 0
  /\ cToken' = SubSeq(cToken, 1, Len(cToken) - 1)
  /\ cPc' = "tampered"
  /\ UNCHANGED <<cText, cKey, cResult>>
  /\ UNCHANGED hvars

Decrypt ==
  /\ cPc \in {"encrypted", "tampered"}
  /\ cResult' = xorDecrypt(cToken, cKey, <<>>, FALSE).ret
  /\ cPc' = IF cPc = "encrypted" THEN "decrypted" ELSE "rejected"
  /\ UNCHANGED <<cText, cKey, cToken>>
  /\ UNCHANGED hvars

CodecNext == Encrypt \/ Truncate \/ Decrypt

SpecCodec == CodecInit /\ [][CodecNext]_vars

(* ------------------------ String(v), JSON ----------------------------- *)

RECURSIVE Digits(_)
Digits(n) == IF n < 10 THEN <<48 + n>> ELSE Digits(n \div 10) \o <<48 + (n % 10)>>

\* String(v) for a primitive v
StringOf(v) ==
  CASE v.t = "string" -> v.s
    [] v.t = "number" -> IF v.n < 0 THEN <<45>> \o Digits(0 - v.n) ELSE Digits(v.n)
    [] v.t = "boolean" -> IF v.n = 1 THEN <<116, 114, 117, 101>>
                                     ELSE <<102, 97, 108, 115, 101>>
    [] v.t = "null" -> <<110, 117, 108, 108>>
    [] OTHER -> <<117, 110, 100, 101, 102, 105, 110, 101, 100>>

HexDigit(v) == IF v < 10 THEN 48 + v ELSE 55 + v

LowerHexDigit(v) == IF v < 10 THEN 48 + v ELSE 87 + v

HexValue(c) ==
  IF c >= 48 /\ c <= 57 THEN c - 48
  ELSE IF c >= 65 /\ c <= 70 THEN c - 55
  ELSE IF c >= 97 /\ c <= 102 THEN c - 87 ELSE -1

\* QuoteJSONString: the escapes JSON.stringify writes inside a string.
RECURSIVE QuoteFrom(_, _)
QuoteFrom(s, i) ==
  IF i > Len(s) THEN <<>>
  ELSE LET c == s[i]
           uEscape == <<92, 117, LowerHexDigit(c \div 4096), LowerHexDigit((c \div 256) % 16),
                        LowerHexDigit((c \div 16) % 16), LowerHexDigit(c % 16)>>
       IN IF IsHighSurrogate(c) /\ i < Len(s) /\ IsLowSurrogate(s[i + 1])
            THEN <<c, s[i + 1]>> \o QuoteFrom(s, i + 2)
          ELSE (CASE c = 34 -> <<92, 34>>
                  [] c = 92 -> <<92, 92>>
                  [] c = 8 -> <<92, 98>>
                  [] c = 12 -> <<92, 102>>
                  [] c = 10 -> <<92, 110>>
                  [] c = 13 -> <<92, 114>>
                  [] c = 9 -> <<92, 116>>
                  [] c < 32 /\ c \notin {8, 9, 10, 12, 13} -> uEscape
                  [] IsHighSurrogate(c) \/ IsLowSurrogate(c) -> uEscape
                  [] OTHER -> <<c>>) \o QuoteFrom(s, i + 1)

QuoteJSONString(s) == <<34>> \o QuoteFrom(s, 1) \o <<34>>

\* JSON.stringify(bundle) for a Record<string, string>, given as its
\* <<key, string>> entries in property order.
RECURSIVE StringifyMembers(_, _)
StringifyMembers(entries, i) ==
  IF i > Len(entries) THEN <<>>
  ELSE (IF i > 1 THEN <<44>> ELSE <<>>)
         \o QuoteJSONString(entries[i][1]) \o <<58>> \o QuoteJSONString(entries[i][2])
         \o StringifyMembers(entries, i + 1)

JSONStringify(entries) == <<123>> \o StringifyMembers(entries, 1) \o <<125>>

ParseFail == [ok |-> FALSE, pos |-> 0, v |-> Undefined]

Parsed(pos, v) == [ok |-> TRUE, pos |-> pos, v |-> v]

IsJsonWhitespace(c) == c \in {9, 10, 13, 32}

IsDigit(c) == c >= 48 /\ c <= 57

RECURSIVE SkipWs(_, _)
SkipWs(s, i) == IF i <= Len(s) /\ IsJsonWhitespace(s[i]) THEN SkipWs(s, i + 1) ELSE i

RECURSIVE DigitsEnd(_, _)
DigitsEnd(s, i) == IF i <= Len(s) /\ IsDigit(s[i]) THEN DigitsEnd(s, i + 1) ELSE i

\* The index after the JSON number starting at i, 0 when there is none.
NumberEnd(s, i) ==
  LET a == IF s[i] = 45 THEN i + 1 ELSE i
  IN IF a > Len(s) \/ ~IsDigit(s[a]) THEN 0
     ELSE LET b == IF s[a] = 48 THEN a + 1 ELSE DigitsEnd(s, a)
              c == IF b <= Len(s) /\ s[b] = 46
                     THEN (IF b + 1 <= Len(s) /\ IsDigit(s[b + 1])
                             THEN DigitsEnd(s, b + 1) ELSE 0)
                     ELSE b
          IN IF c = 0 THEN 0
             ELSE IF c <= Len(s) /\ s[c] \in {101, 69}
               THEN LET d == IF c + 1 <= Len(s) /\ s[c + 1] \in {43, 45}
                               THEN c + 2 ELSE c + 1
                    IN IF d <= Len(s) /\ IsDigit(s[d]) THEN DigitsEnd(s, d) ELSE 0
               ELSE c

\* The characters of a JSON string whose opening quote is before j.
RECURSIVE ParseChars(_, _, _)
ParseChars(s, j, acc) ==
  IF j > Len(s) THEN ParseFail
  ELSE IF s[j] = 34 THEN Parsed(j + 1, JsString(acc))
  ELSE IF s[j] < 32 THEN ParseFail
  ELSE IF s[j] # 92 THEN ParseChars(s, j + 1, Append(acc, s[j]))
  ELSE IF j + 1 > Len(s) THEN ParseFail
  ELSE LET c == s[j + 1] IN
    CASE c \in {34, 92, 47} -> ParseChars(s, j + 2, Append(acc, c))
      [] c = 98 -> ParseChars(s, j + 2, Append(acc, 8))
      [] c = 102 -> ParseChars(s, j + 2, Append(acc, 12))
      [] c = 110 -> ParseChars(s, j + 2, Append(acc, 10))
      [] c = 114 -> ParseChars(s, j + 2, Append(acc, 13))
      [] c = 116 -> ParseChars(s, j + 2, Append(acc, 9))
      [] c = 117 ->
           IF j + 5 <= Len(s) /\ \A k \in 2..5 : HexValue(s[j + k]) # -1
             THEN ParseChars(s, j + 6,
                    Append(acc, HexValue(s[j + 2]) * 4096 + HexValue(s[j + 3]) * 256
                                  + HexValue(s[j + 4]) * 16 + HexValue(s[j + 5])))
             ELSE ParseFail
      [] OTHER -> ParseFail

\* obj[k] = v on a list of entries: a repeated key keeps its place.
SetEntry(entries, k, v) ==
  IF \E i \in 1..Len(entries) : entries[i][1] = k
    THEN [i \in 1..Len(entries) |-> IF entries[i][1] = k THEN <<k, v>> ELSE entries[i]]
    ELSE Append(entries, <<k, v>>)

HasPrefixAt(s, i, word) ==
  /\ i + Len(word) - 1 <= Len(s)
  /\ \A k \in 1..Len(word) : s[i + k - 1] = word[k]

RECURSIVE ParseValue(_, _)
RECURSIVE ParseMembers(_, _, _)
RECURSIVE ParseElements(_, _, _)

\* The JSON value starting at i (white space skipped by the caller).
ParseValue(s, i) ==
  IF i > Len(s) THEN ParseFail
  ELSE LET c == s[i] IN
    CASE c = 123 ->
           LET j == SkipWs(s, i + 1)
           IN IF j <= Len(s) /\ s[j] = 125
                THEN Parsed(j + 1, [t |-> "object", s |-> <<>>, n |-> 0, e |-> <<>>])
                ELSE ParseMembers(s, j, <<>>)
      [] c = 91 ->
           LET j == SkipWs(s, i + 1)
           IN IF j <= Len(s) /\ s[j] = 93
                THEN Parsed(j + 1, [t |-> "array", s |-> <<>>, n |-> 0, e |-> <<>>])
                ELSE ParseElements(s, j, <<>>)
      [] c = 34 -> ParseChars(s, i + 1, <<>>)
      [] c = 45 \/ IsDigit(c) ->
           LET j == NumberEnd(s, i)
           IN IF j = 0 THEN ParseFail
              ELSE Parsed(j, [t |-> "number", s |-> SubSeq(s, i, j - 1), n |-> 0, e |-> <<>>])
      [] HasPrefixAt(s, i, <<116, 114, 117, 101>>) -> Parsed(i + 4, JsBoolean(TRUE))
      [] HasPrefixAt(s, i, <<102, 97, 108, 115, 101>>) -> Parsed(i + 5, JsBoolean(FALSE))
      [] HasPrefixAt(s, i, <<110, 117, 108, 108>>) -> Parsed(i + 4, JsNull)
      [] OTHER -> ParseFail

\* The members of an object from i on (a key is expected at i).
ParseMembers(s, i, acc) ==
  IF i > Len(s) \/ s[i] # 34 THEN ParseFail
  ELSE LET k == ParseChars(s, i + 1, <<>>) IN
    IF ~k.ok THEN ParseFail
    ELSE LET c == SkipWs(s, k.pos) IN
      IF c > Len(s) \/ s[c] # 58 THEN ParseFail
      ELSE LET v == ParseValue(s, SkipWs(s, c + 1)) IN
        IF ~v.ok THEN ParseFail
        ELSE LET j == SkipWs(s, v.pos)
                 acc1 == SetEntry(acc, k.v.s, v.v)
             IN IF j > Len(s) THEN ParseFail
                ELSE IF s[j] = 125
                  THEN Parsed(j + 1, [t |-> "object", s |-> <<>>, n |-> 0, e |-> acc1])
                ELSE IF s[j] = 44 THEN ParseMembers(s, SkipWs(s, j + 1), acc1)
                ELSE ParseFail

\* The elements of an array from i on; an element's key is its index.
ParseElements(s, i, acc) ==
  LET v == ParseValue(s, i) IN
    IF ~v.ok THEN ParseFail
    ELSE LET j == SkipWs(s, v.pos)
             acc1 == Append(acc, <<Digits(Len(acc)), v.v>>)
         IN IF j > Len(s) THEN ParseFail
            ELSE IF s[j] = 93
              THEN Parsed(j + 1, [t |-> "array", s |-> <<>>, n |-> 0, e |-> acc1])
            ELSE IF s[j] = 44 THEN ParseElements(s, SkipWs(s, j + 1), acc1)
            ELSE ParseFail

\* JSON.parse(text): ok = FALSE is the SyntaxError.
JSONParse(text) ==
  LET r == ParseValue(text, SkipWs(text, 1))
  IN IF r.ok /\ SkipWs(text, r.pos) = Len(text) + 1 THEN r ELSE ParseFail

\* Object.entries(obj): throws on null and undefined; a string has its
\* code units by index, a number or boolean nothing.
ObjectEntries(obj) ==
  CASE Nullish(obj) -> [throws |-> TRUE, entries |-> <<>>]
    [] obj.t \in {"object", "array"} -> [throws |-> FALSE, entries |-> obj.e]
    [] obj.t = "string" ->
         [throws |-> FALSE,
          entries |-> [i \in 1..Len(obj.s) |-> <<Digits(i - 1), JsString(<<obj.s[i]>>)>>]]
    [] OTHER -> [throws |-> FALSE, entries |-> <<>>]

(* -------------------------- URLSearchParams --------------------------- *)

\* The USVString conversion: a lone surrogate becomes U+FFFD.
ToUSVString(s) ==
  [i \in 1..Len(s) |->
     IF (IsHighSurrogate(s[i]) /\ ~(i < Len(s) /\ IsLowSurrogate(s[i + 1])))
        \/ (IsLowSurrogate(s[i]) /\ ~(i > 1 /\ IsHighSurrogate(s[i - 1])))
       THEN 65533 ELSE s[i]]

RECURSIVE DropNamed(_, _)
DropNamed(list, name) ==
  IF Len(list) = 0 THEN <<>>
  ELSE IF Head(list)[1] = name THEN DropNamed(Tail(list), name)
  ELSE <<Head(list)>> \o DropNamed(Tail(list), name)

\* usp.set(name, value): the first pair of that name gets the value and the
\* others go; with no such pair, one is appended.
RECURSIVE UspSetFrom(_, _, _)
UspSetFrom(list, name, value) ==
  IF Len(list) = 0 THEN <<<<name, value>>>>
  ELSE IF Head(list)[1] = name THEN <<<<name, value>>>> \o DropNamed(Tail(list), name)
  ELSE <<Head(list)>> \o UspSetFrom(Tail(list), name, value)

UspSet(list, name, value) == UspSetFrom(list, ToUSVString(name), ToUSVString(value))

\* application/x-www-form-urlencoded byte serializer
RECURSIVE UrlencodeBytes(_)
UrlencodeBytes(u8) ==
  IF Len(u8) = 0 THEN <<>>
  ELSE LET b == Head(u8) IN
    (IF b = 32 THEN <<43>>
     ELSE IF b \in {42, 45, 46, 95} \/ IsDigit(b) \/ (b >= 65 /\ b <= 90) \/ (b >= 97 /\ b <= 122)
       THEN <<b>>
       ELSE <<37, HexDigit(b \div 16), HexDigit(b % 16)>>) \o UrlencodeBytes(Tail(u8))

\* usp.toString()
RECURSIVE UspToStringFrom(_, _)
UspToStringFrom(list, i) ==
  IF i > Len(list) THEN <<>>
  ELSE (IF i > 1 THEN <<38>> ELSE <<>>)
         \o UrlencodeBytes(toUtf8(list[i][1])) \o <<61>> \o UrlencodeBytes(toUtf8(list[i][2]))
         \o UspToStringFrom(list, i + 1)

UspToString(list) == UspToStringFrom(list, 1)

\* The pieces of s between the separators sep.
RECURSIVE SplitFrom(_, _, _, _)
SplitFrom(s, sep, i, piece) ==
  IF i > Len(s) THEN <<piece>>
  ELSE IF s[i] = sep THEN <<piece>> \o SplitFrom(s, sep, i + 1, <<>>)
  ELSE SplitFrom(s, sep, i + 1, Append(piece, s[i]))

RECURSIVE PercentDecode(_)
PercentDecode(u8) ==
  IF Len(u8) = 0 THEN <<>>
  ELSE IF Head(u8) = 37 /\ Len(u8) >= 3 /\ HexValue(u8[2]) # -1 /\ HexValue(u8[3]) # -1
    THEN <<HexValue(u8[2]) * 16 + HexValue(u8[3])>> \o PercentDecode(SubSeq(u8, 4, Len(u8)))
    ELSE <<Head(u8)>> \o PercentDecode(Tail(u8))

FirstIndexOf(s, c) ==
  IF \E i \in 1..Len(s) : s[i] = c
    THEN CHOOSE i \in 1..Len(s) : s[i] = c /\ \A j \in 1..(i - 1) : s[j] # c
    ELSE 0

UrlDecodeComponent(u8) == Utf8DecodeWithoutBOM(PercentDecode(ReplaceAll(u8, 43, 32)))

RECURSIVE ParsePieces(_)
ParsePieces(pieces) ==
  IF Len(pieces) = 0 THEN <<>>
  ELSE LET pc == Head(pieces)
           eq == FirstIndexOf(pc, 61)
           name == IF eq = 0 THEN pc ELSE SubSeq(pc, 1, eq - 1)
           value == IF eq = 0 THEN <<>> ELSE SubSeq(pc, eq + 1, Len(pc))
       IN (IF Len(pc) = 0 THEN <<>>
           ELSE <<<<UrlDecodeComponent(name), UrlDecodeComponent(value)>>>>)
            \o ParsePieces(Tail(pieces))

\* The search parameters of a query string (with or without its "?").
UspParse(search) ==
  LET s == IF Len(search) > 0 /\ search[1] = 63 THEN Tail(search) ELSE search
  IN ParsePieces(SplitFrom(toUtf8(s), 38, 1, <<>>))

\* The query of a URL: from its first "?" to its first "#".
SearchOf(url) ==
  LET h == FirstIndexOf(url, 35)
      u == IF h = 0 THEN url ELSE SubSeq(url, 1, h - 1)
      q == FirstIndexOf(u, 63)
  IN IF q = 0 THEN <<>> ELSE SubSeq(u, q, Len(u))

(* ------------------------------ the hook ------------------------------ *)

\* const { allowList = [], secret = DEFAULT_SECRET, mode = "perParam",
\*         bundleKey = "q", encryptionMode = "all", notFoundPath = "/404" } = opts
Destructure(o) ==
  [allowList |-> IF o.allowList.given THEN o.allowList.v ELSE <<>>,
   secret |-> IF o.secret.given THEN o.secret.v ELSE DEFAULT_SECRET,
   mode |-> IF o.mode.given THEN o.mode.v ELSE "perParam",
   bundleKey |-> IF o.bundleKey.given THEN o.bundleKey.v ELSE <<113>>,
   encryptionMode |-> IF o.encryptionMode.given THEN o.encryptionMode.v ELSE "all",
   notFoundPath |-> IF o.notFoundPath.given THEN o.notFoundPath.v ELSE <<47, 52, 48, 52>>]

\* allowList.includes(k)
Includes(list, k) == \E i \in 1..Len(list) : list[i] = k

\* shouldEncrypt as it would be if "pure" did not consult the allow-list.
shouldEncrypt_WithoutAllowList(c, k) ==
  \/ c.encryptionMode = "all"
  \/ c.encryptionMode = "pure"
  \/ (c.encryptionMode = "encrypt" /\ ~Includes(c.allowList, k))

\* The shouldEncrypt of both paths.
shouldEncrypt(c, k) ==
  \/ c.encryptionMode = "all"
  \/ (c.encryptionMode = "pure" /\ Includes(c.allowList, k))
  \/ (c.encryptionMode = "encrypt" /\ ~Includes(c.allowList, k))

\* The hook's encrypt and decrypt helpers.
encrypt(c, value) == xorEncrypt(value, JsString(c.secret))

decrypt(c, w, value) == xorDecrypt(value, JsString(c.secret), c.notFoundPath, w)

EmptyMap == [k \in {} |-> Undefined]

\* out[k] = v
Put(out, k, v) == [x \in (DOMAIN out) \cup {k} |-> IF x = k THEN v ELSE out[x]]

\* Object.entries(obj).forEach(([k, v]) => { if (v !== "") out[k] = v })
RECURSIVE MergeEntries(_, _)
MergeEntries(out, entries) ==
  IF Len(entries) = 0 THEN out
  ELSE MergeEntries(IF Head(entries)[2] # JsString(<<>>)
                      THEN Put(out, Head(entries)[1], Head(entries)[2])
                      ELSE out,
                    Tail(entries))

\* The record of a call decrypt(value) the callback makes for key.
Called(acc, key, value, d) ==
  [acc EXCEPT !.redirect = @ \/ d.redirect,
              !.calls = Append(@, [key |-> key, value |-> value, ret |-> d.ret])]

\* The tail of the single-mode branch: Object.entries(obj).forEach(...) inside
\* the try block, whose catch ignores a throw.
MergeParsed(acc, en) ==
  IF en.throws THEN acc
  ELSE [acc EXCEPT !.data = MergeEntries(@, en.entries)]

\* JSON.parse(json) inside the try block, whose catch ignores a throw.
MergeBundle(acc, obj) ==
  IF ~obj.ok THEN acc
  ELSE MergeParsed(acc, ObjectEntries(obj.v))

\* What the callback does with d, the result of its decrypt call.
Decrypted(acc, key, c, d) ==
  IF d.ret = JsNull \/ d.ret = JsString(<<>>) THEN acc
  ELSE IF c.mode = "single" THEN MergeBundle(acc, JSONParse(d.ret.s))
  ELSE [acc EXCEPT !.data = Put(@, key, d.ret)]

\* Whether the callback decrypts the value of key.
Decrypts(c, key) ==
  \/ (c.mode = "single" /\ key = c.bundleKey)
  \/ (c.mode # "single" /\ c.mode = "perParam" /\ shouldEncrypt(c, key))

DecryptEntry(acc, key, value, c, d) == Decrypted(Called(acc, key, value, d), key, c, d)

\* The callback of searchParams.forEach for the pair (key, value).
QueryEntry(acc, key, value, c, w) ==
  IF value = <<>> THEN acc
  ELSE IF Decrypts(c, key) THEN DecryptEntry(acc, key, value, c, decrypt(c, w, value))
  ELSE IF c.mode = "single" /\ key = c.bundleKey THEN acc
  ELSE IF c.mode = "perParam" THEN [acc EXCEPT !.data = Put(@, key, JsString(value))]
  ELSE acc

RECURSIVE QueryFrom(_, _, _, _, _)
QueryFrom(acc, sp, i, c, w) ==
  IF i > Len(sp) THEN acc
  ELSE QueryFrom(QueryEntry(acc, sp[i][1], sp[i][2], c, w), sp, i + 1, c, w)

\* The useMemo body as it would be without its first line, if (!mounted).
QueryMemo_Ungated(m, sp, c, w) ==
  QueryFrom([data |-> EmptyMap, redirect |-> FALSE, calls |-> <<>>], sp, 1, c, w)

\* The useMemo body: data is the query map, redirect whether a decrypt set
\* window.location.href, calls the decrypt calls made.
QueryMemo(m, sp, c, w) ==
  IF ~m THEN [data |-> EmptyMap, redirect |-> FALSE, calls |-> <<>>]
  ELSE QueryFrom([data |-> EmptyMap, redirect |-> FALSE, calls |-> <<>>], sp, 1, c, w)

\* The test of an empty value as it would be if it were !vRaw.
IsEmptyValue_Falsy(v) ==
  \/ v.t = "undefined" \/ v.t = "null" \/ v = JsString(<<>>)
  \/ v = JsNumber(0) \/ v = JsBoolean(FALSE)

\* vRaw === undefined || vRaw === null || vRaw === ""
IsEmptyValue(v) == v.t = "undefined" \/ v.t = "null" \/ v = JsString(<<>>)

\* The loop of single mode: plain and bundle after the entries from i on.
RECURSIVE SingleFrom(_, _, _, _)
SingleFrom(acc, p, i, c) ==
  IF i > Len(p) THEN acc
  ELSE LET k == p[i][1]
           vRaw == p[i][2]
       IN IF IsEmptyValue(vRaw) THEN SingleFrom(acc, p, i + 1, c)
          ELSE IF Includes(c.allowList, k)
            THEN SingleFrom([acc EXCEPT !.plain = UspSet(@, k, StringOf(vRaw))], p, i + 1, c)
            ELSE SingleFrom([acc EXCEPT !.bundle = SetEntry(@, k, StringOf(vRaw))], p, i + 1, c)

\* The loop of per-param mode.
RECURSIVE PerParamFrom(_, _, _, _)
PerParamFrom(usp, p, i, c) ==
  IF i > Len(p) THEN usp
  ELSE LET k == p[i][1]
           vRaw == p[i][2]
           v == StringOf(vRaw)
       IN IF IsEmptyValue(vRaw) THEN PerParamFrom(usp, p, i + 1, c)
          ELSE PerParamFrom(UspSet(usp, k, IF shouldEncrypt(c, k) THEN encrypt(c, v) ELSE v),
                            p, i + 1, c)

\* The URLSearchParams buildSearch serialises.
BuiltParams(p, c) ==
  IF c.mode = "single"
    THEN LET r == SingleFrom([plain |-> <<>>, bundle |-> <<>>], p, 1, c)
         IN IF Len(r.bundle) # 0
              THEN UspSet(r.plain, c.bundleKey, encrypt(c, JSONStringify(r.bundle)))
              ELSE r.plain
    ELSE PerParamFrom(<<>>, p, 1, c)

\* buildSearch(params), params given as its Object.entries.
buildSearch(p, c) ==
  LET qs == UspToString(BuiltParams(p, c))
  IN IF Len(qs) # 0 THEN <<63>> \o qs ELSE <<>>

(* ------------------------- the hook, stepwise ------------------------- *)

KeyA == <<97>>

KeyQ == <<113>>

KeyB == <<98>>

\* The Options a component may pass: per parameter under each policy, and
\* single mode, where the allow-list may also name the bundle key.
Modes ==
  {[mode |-> NotGiven(""), encryptionMode |-> NotGiven("")],
   [mode |-> Given("perParam"), encryptionMode |-> Given("pure")],
   [mode |-> NotGiven(""), encryptionMode |-> Given("encrypt")],
   [mode |-> Given("single"), encryptionMode |-> NotGiven("")]}

AllowLists(md) ==
  {NotGiven(<<>>), Given(<<KeyA>>)}
    \cup (IF md.mode = Given("single") THEN {Given(<<KeyQ>>)} ELSE {})

Options ==
  UNION {{[allowList |-> al, secret |-> NotGiven(<<>>), mode |-> md.mode,
           bundleKey |-> NotGiven(<<>>), encryptionMode |-> md.encryptionMode,
           notFoundPath |-> nf] :
            al \in AllowLists(md), nf \in {NotGiven(<<>>), Given(<<>>)}} : md \in Modes}

MaxEntries == 2

ParamKeys == <<KeyA, KeyQ, KeyB>>

\* The values a parameter takes, by its place in the map.
ParamValues(n) ==
  IF n = 1
    THEN {Undefined, JsNull, JsString(<<>>), JsNumber(0), JsBoolean(FALSE),
          JsString(<<65279, 120>>)}
  ELSE IF n = 2 THEN {JsString(<<>>), JsString(<<121, 38>>)}
  ELSE {JsString(<<122>>)}

\* Object.entries(params) of the maps with the first n keys.
RECURSIVE EntriesUpTo(_)
EntriesUpTo(n) ==
  IF n = 0 THEN {<<>>}
  ELSE LET shorter == EntriesUpTo(n - 1)
       IN shorter \cup
            {Append(p, <<ParamKeys[n], v>>) :
               p \in {x \in shorter : Len(x) = n - 1}, v \in ParamValues(n)}

ParamMaps == EntriesUpTo(IF MaxEntries < Len(ParamKeys) THEN MaxEntries ELSE Len(ParamKeys))

\* "/p"
Paths == {<<47, 112>>}

\* A token of the default secret.
Token(text) == xorEncrypt(text, Undefined)

\* Search parameters of URLs written by somebody else: a raw value, a
\* well-framed bundle that is no JSON, bundles {"a":1}, {"a":""} and null,
\* a repeated name, a token of U+FEFF alone, a token cut short.
Crafted ==
  {<<<<KeyA, <<120>>>>>>,
   <<<<KeyQ, <<81, 81>>>>>>,
   <<<<KeyQ, Token(<<123, 34, 97, 34, 58, 49, 125>>)>>>>,
   <<<<KeyQ, Token(<<123, 34, 97, 34, 58, 34, 34, 125>>)>>>>,
   <<<<KeyQ, Token(<<110, 117, 108, 108>>)>>>>,
   <<<<KeyA, Token(<<120>>)>>, <<KeyA, <<>>>>>>,
   <<<<KeyA, Token(<<65279>>)>>>>,
   <<<<KeyA, SubSeq(Token(<<120, 121>>), 1, 2)>>>>}

NoCall == [method |-> "none", url |-> <<>>]

HookInit ==
  /\ opts \in Options
  /\ hasWindow \in BOOLEAN
  /\ (~hasWindow => ~opts.notFoundPath.given)
  /\ mounted = FALSE
  /\ searchParams = <<>>
  /\ query = EmptyMap
  /\ href = <<>>
  /\ routerCall = NoCall
  /\ params = <<>>
  /\ calls = <<>>

\* A render: the memo is computed from the state the render sees, and a
\* decrypt in it may set window.location.href.
Render(m, sp) ==
  \E r \in {QueryMemo(m, sp, Destructure(opts), hasWindow)} :
     /\ query' = r.data
     /\ calls' = r.calls
     /\ href' = IF r.redirect THEN Destructure(opts).notFoundPath ELSE href

\* useEffect(() => setMounted(true), []), and the render it brings.
MountEffect ==
  /\ href = <<>>
  /\ ~mounted
  /\ mounted' = TRUE
  /\ Render(TRUE, searchParams)
  /\ UNCHANGED <<opts, hasWindow, searchParams, routerCall, params>>
  /\ UNCHANGED cvars

\* router[method](`${path}${buildSearch(params)}`), and the render that the
\* new search parameters bring.
Route(method, path, p) ==
  \E url \in {path \o buildSearch(p, Destructure(opts))} :
     /\ href = <<>>
     /\ routerCall' = [method |-> method, url |-> url]
     /\ params' = p
     /\ searchParams' = UspParse(SearchOf(url))
     /\ Render(mounted, searchParams')
     /\ UNCHANGED <<opts, hasWindow, mounted>>
     /\ UNCHANGED cvars

pushEncrypted == \E path \in Paths, p \in ParamMaps : Route("push", path, p)

replaceEncrypted == \E path \in Paths, p \in ParamMaps : Route("replace", path, p)

\* The URL changes from outside the hook (a link, the address bar).
Navigate ==
  \E sp \in Crafted :
    /\ href = <<>>
    /\ searchParams' = sp
    /\ routerCall' = NoCall
    /\ params' = <<>>
    /\ Render(mounted, sp)
    /\ UNCHANGED <<opts, hasWindow, mounted>>
    /\ UNCHANGED cvars

CodecIdle ==
  /\ cText = <<>>
  /\ cKey = Undefined
  /\ cToken = <<>>
  /\ cResult = Undefined
  /\ cPc = "start"

Init == CodecIdle /\ HookInit

Next == MountEffect \/ pushEncrypted \/ replaceEncrypted \/ Navigate

Spec == Init /\ [][Next]_vars

(* ----------------------- properties of the codec ---------------------- *)

\* C1: for every string x and every non-empty key k,
\* xorDecrypt(xorEncrypt(x, k), k) returns x, never null and never a
\* different string.
\* (Stated for the strings UTF-8 expresses, those without a lone surrogate.)
C1_CodecRoundTrip ==
  (cPc = "decrypted" /\ cKey.t = "string" /\ Len(cKey.s) > 0
     /\ ToUSVString(cText) = cText)
    => cResult = JsString(cText)

\* C7: with the empty string as key the default secret is used, so that
\* xorEncrypt(x, "") = xorEncrypt(x, DEFAULT_SECRET) and
\* xorDecrypt(c, "") = xorDecrypt(c, DEFAULT_SECRET).
C7_EmptyKeyIsDefaultSecret ==
  cKey = JsString(<<>>) =>
    /\ cPc = "encrypted" => cToken = xorEncrypt(cText, JsString(DEFAULT_SECRET))
    /\ cPc \in {"decrypted", "rejected"} =>
         cResult = xorDecrypt(cToken, JsString(DEFAULT_SECRET), <<>>, FALSE).ret

(* ------------------------ properties of the hook ---------------------- *)

Config == Destructure(opts)

\* The names of a list of pairs, and the value of the first pair named k.
Names(list) == {list[i][1] : i \in 1..Len(list)}

Lookup(list, k) == list[CHOOSE i \in 1..Len(list) : list[i][1] = k][2]

\* The entries of params with a value that is not null, undefined or "".
Kept(p) == {i \in 1..Len(p) : p[i][2] \notin {Undefined, JsNull, JsString(<<>>)}}

\* The policy in the words of the options: which keys are encrypted.
Selected(c, k) ==
  \/ c.encryptionMode = "all"
  \/ (c.encryptionMode = "pure" /\ k \in {c.allowList[i] : i \in 1..Len(c.allowList)})
  \/ (c.encryptionMode = "encrypt" /\ k \notin {c.allowList[i] : i \in 1..Len(c.allowList)})

\* The last router call was made by pushEncrypted or replaceEncrypted.
Routed == routerCall.method # "none"

\* C2: in perParam mode, for every parameter map and every policy with any
\* allow-list, the query decoded (after mount) from the query string
\* buildSearch made is the map restricted to its non-empty values.
C2_PerParamRoundTrip ==
  (mounted /\ Routed /\ Config.mode = "perParam") =>
    query = [k \in {params[i][1] : i \in Kept(params)} |->
               JsString(StringOf(Lookup(params, k)))]

\* C3: in perParam mode buildSearch encodes the value of a non-empty entry
\* exactly when the policy selects its key and emits it raw otherwise, and
\* the decode path decrypts exactly the values of the keys the same policy
\* selects and passes the others through unchanged.
C3_PolicySelection ==
  Config.mode = "perParam" =>
    /\ Routed =>
         \A i \in Kept(params) :
            /\ params[i][1] \in Names(searchParams)
            /\ Lookup(searchParams, params[i][1]) =
                 IF Selected(Config, params[i][1])
                   THEN xorEncrypt(StringOf(params[i][2]), JsString(Config.secret))
                   ELSE StringOf(params[i][2])
    /\ mounted =>
         \A i \in 1..Len(searchParams) :
            searchParams[i][2] # <<>> =>
              /\ Selected(Config, searchParams[i][1])
                   <=> \E j \in 1..Len(calls) :
                          /\ calls[j].key = searchParams[i][1]
                          /\ calls[j].value = searchParams[i][2]
              /\ (/\ ~Selected(Config, searchParams[i][1])
                  /\ \A j \in (i + 1)..Len(searchParams) :
                        searchParams[j][1] = searchParams[i][1] => searchParams[j][2] = <<>>)
                   => /\ searchParams[i][1] \in DOMAIN query
                      /\ query[searchParams[i][1]] = JsString(searchParams[i][2])

C3_RawAndEncodedEntries ==
  /\ mounted /\ Routed
  /\ Config.mode = "perParam" /\ Config.encryptionMode = "pure"
  /\ Config.allowList = <<KeyA>>
  /\ Cardinality(Kept(params)) = 2
  /\ Len(calls) = 1

\* The <<key, string>> pairs of the entries of p that satisfy Test, in order.
Strings(p, Test(_)) ==
  LET sel == SelectSeq(p, Test)
  IN [j \in 1..Len(sel) |-> <<sel[j][1], StringOf(sel[j][2])>>]

IsKept(e) == e[2] \notin {Undefined, JsNull, JsString(<<>>)}

InAllowList(e) == \E i \in 1..Len(Config.allowList) : Config.allowList[i] = e[1]

\* The sub-map of single mode: the non-empty entries outside the allow-list.
IsBundled(e) == IsKept(e) /\ ~InAllowList(e)

\* C4: in single mode every non-empty entry with an allow-listed key is in
\* the query string under its own key with its plain value, the other
\* non-empty entries are JSON-serialized together, encoded and stored under
\* bundleKey, and bundleKey is in the output only if that sub-map is non-empty.
C4_SingleModeLayout ==
  (Routed /\ Config.mode = "single") =>
    /\ \A i \in Kept(params) :
          InAllowList(params[i]) =>
            /\ params[i][1] \in Names(searchParams)
            /\ Lookup(searchParams, params[i][1]) = StringOf(params[i][2])
    /\ Strings(params, IsBundled) # <<>> =>
         /\ Config.bundleKey \in Names(searchParams)
         /\ Lookup(searchParams, Config.bundleKey) =
              xorEncrypt(JSONStringify(Strings(params, IsBundled)), JsString(Config.secret))
    /\ Config.bundleKey \in Names(searchParams) => Strings(params, IsBundled) # <<>>

C6_ReadinessGate ==
  /\ ~mounted
  /\ [](~mounted => (query = EmptyMap /\ calls = <<>> /\ href = <<>>))
  /\ [](mounted => query = QueryFrom([data |-> EmptyMap, redirect |-> FALSE,
                                      calls |-> <<>>],
                                     searchParams, 1, Config, hasWindow).data)
  /\ [][mounted => mounted']_vars

C6_NotReadyWithParams == ~mounted /\ Len(searchParams) > 0 /\ Routed

\* C8: for every incoming set of search parameters and every configuration,
\* every value of the returned query map is a non-empty string.
C8_QueryValuesAreNonEmptyStrings ==
  \A k \in DOMAIN query : query[k].t = "string" /\ Len(query[k].s) > 0

\* The query string of the last router call: what follows the path.
RoutedSearch ==
  SubSeq(routerCall.url,
         1 + Len(CHOOSE path \in Paths :
                   SubSeq(routerCall.url, 1, Len(path)) = path),
         Len(routerCall.url))

\* The string a value is coerced to, 0 and false spelled out.
Coerced(v) ==
  IF v = JsNumber(0) THEN <<48>>
  ELSE IF v = JsBoolean(FALSE) THEN <<102, 97, 108, 115, 101>>
  ELSE StringOf(v)

\* The entries of the bundle a single-mode query string carries.
Unbundled(sp) ==
  JSONParse(xorDecrypt(Lookup(sp, Config.bundleKey), JsString(Config.secret),
                       <<>>, FALSE).ret.s).v.e

\* C9: in both modes buildSearch omits every entry whose value is null,
\* undefined or "" and coerces every other value, 0 and false included, to a
\* string; the query string starts with "?" exactly when a pair is emitted
\* and is empty otherwise.  (Where single mode puts an entry is C4.)
C9_EmptyValueStripping ==
  Routed =>
    /\ (RoutedSearch # <<>>) <=> (Len(searchParams) > 0)
    /\ (Len(searchParams) > 0) <=> (Kept(params) # {})
    /\ RoutedSearch # <<>> => RoutedSearch[1] = 63
    /\ Config.mode = "perParam" =>
         /\ Names(searchParams) = {params[i][1] : i \in Kept(params)}
         /\ \A i \in Kept(params) :
               Lookup(searchParams, params[i][1]) \in
                 {Coerced(params[i][2]),
                  xorEncrypt(Coerced(params[i][2]), JsString(Config.secret))}
    /\ Config.mode = "single" =>
         /\ Names(searchParams) \subseteq
              {params[i][1] : i \in Kept(params)} \cup {Config.bundleKey}
         /\ \A i \in Kept(params) :
               IF InAllowList(params[i])
                 THEN params[i][1] # Config.bundleKey =>
                        Lookup(searchParams, params[i][1]) = Coerced(params[i][2])
                 ELSE /\ Config.bundleKey \in Names(searchParams)
                      /\ Names(Unbundled(searchParams)) =
                           {params[j][1] : j \in {x \in Kept(params) : ~InAllowList(params[x])}}
                      /\ Lookup(Unbundled(searchParams), params[i][1]) =
                           JsString(Coerced(params[i][2]))

C9_FalsyKeptEmptyDropped ==
  /\ Routed
  /\ \E i \in Kept(params) : params[i][2] \in {JsNumber(0), JsBoolean(FALSE)}
  /\ \E i \in 1..Len(params) : params[i][2] = JsString(<<>>)
  /\ Len(searchParams) = 1

====
